---- MODULE Spec2Model ----
(***************************************************************************)
(* The worker package of space-sdk-ts: the Router registry, the Route      *)
(* builder, OpenAPI generation, Server.start and the per-route request     *)
(* dispatcher, with the helpers getPayloadFromParams and processException. *)
(*                                                                         *)
(* JavaScript objects are modelled as a heap: one RouteConfig per          *)
(* registration (shared by every Route value of the chain), one record per *)
(* Route value, and the registry as a sequence of references to Route      *)
(* values.                                                                 *)
(***************************************************************************)
EXTENDS Integers, Sequences, FiniteSets, TLC

VARIABLES
  serverConfig,   \* Server.config after the constructor: [name, baseUrl, port]
  configs,        \* heap of RouteConfig objects, one per registration
  objs,           \* heap of Route values: [reg, handler]
  routes,         \* Router.routes: references into objs
  openApiBuilder, \* Router.openApiBuilder: [title, paths]
  started,        \* Server.start() has run
  app,            \* the express application's layers, in registration order
  req,            \* the request being served (or the last one served)
  res,            \* the response written for req
  run,            \* how far the dispatcher got for req
  calls           \* the number of calls the program has made on the router and its routes

vars == <<serverConfig, configs, objs, routes, openApiBuilder, started, app, req, res, run, calls>>

----------------------------------------------------------------------------
(* Bounds of the model *)

MaxRoutes == 2
MaxObjs == 3
MaxQueryKeys == 2
MaxCalls == 4

----------------------------------------------------------------------------
(* JavaScript values *)

Undefined == "undefined"

NoProps == [k \in {} |-> Undefined]

\* Keys that every plain object inherits from Object.prototype: a lookup
\* obj[key] of one of them is truthy although the object does not declare it.
ObjectPrototypeKeys == {"constructor"}

----------------------------------------------------------------------------
(* zod schemas and their JSON-Schema documents *)

ZodNull == [typeName |-> "ZodNull", shape |-> NoProps, passthrough |-> FALSE]
ZodAny == [typeName |-> "ZodAny", shape |-> NoProps, passthrough |-> FALSE]
ZodString == [typeName |-> "ZodString", shape |-> NoProps, passthrough |-> FALSE]
ZodObject(shape) == [typeName |-> "ZodObject", shape |-> shape, passthrough |-> FALSE]
ZodPassthrough(shape) == [typeName |-> "ZodObject", shape |-> shape, passthrough |-> TRUE]

\* z.object({ name: z.string() }) of the sample application
NameSchema == ZodObject([k \in {"name"} |-> "ZodString"])
GreetingSchema == ZodObject([k \in {"greeting"} |-> "ZodString"])
FlagsSchema ==
  ZodObject([k \in {"flag", "count", "tags"} |->
               CASE k = "flag" -> "ZodBoolean"
                 [] k = "count" -> "ZodNumberInt"
                 [] OTHER -> "ZodArray"])
OpenSchema == ZodPassthrough([k \in {"name"} |-> "ZodString"])

\* the JSON-Schema `type` zod-to-json-schema gives a member of an object
JsonTypeOfMember(member) ==
  CASE member = "ZodString" -> "string"
    [] member = "ZodBoolean" -> "boolean"
    [] member = "ZodNumber" -> "number"
    [] member = "ZodNumberInt" -> "integer"
    [] member = "ZodArray" -> "array"
    [] OTHER -> Undefined

JsonSchema(type, additionalProperties, hasProperties, properties, dollar) ==
  [type |-> type, additionalProperties |-> additionalProperties,
   hasProperties |-> hasProperties, properties |-> properties,
   dollarSchema |-> dollar]

\* { type: "null" } and {} : the literals of Router.query / Router.mutation
JsonNullType == JsonSchema("null", FALSE, FALSE, NoProps, FALSE)
JsonEmpty == JsonSchema(Undefined, FALSE, FALSE, NoProps, FALSE)

zodToJsonSchema(schema) ==
  CASE schema.typeName = "ZodNull" -> JsonSchema("null", FALSE, FALSE, NoProps, TRUE)
    [] schema.typeName = "ZodAny" -> JsonSchema(Undefined, FALSE, FALSE, NoProps, TRUE)
    [] schema.typeName = "ZodString" -> JsonSchema("string", FALSE, FALSE, NoProps, TRUE)
    [] OTHER ->
         JsonSchema("object", schema.passthrough, TRUE,
                    [k \in DOMAIN schema.shape |-> JsonTypeOfMember(schema.shape[k])],
                    TRUE)

\* delete jsonSchema["$schema"]
DeleteDollarSchema(json) == [json EXCEPT !.dollarSchema = FALSE]

isZodTypeNull(inputZodType) == inputZodType.typeName = "ZodNull"

----------------------------------------------------------------------------
(* Inputs of the builder calls *)

OpIds == {"operate", "addTodo"}
MethodArgs == {"get", "put", "delete", "GET", "PUT"}
UrlArgs == {"/v1/operate", "/x"}
Handlers == {"h1", "h2"}
BaseUrlArgs == {Undefined, "/v2"}

----------------------------------------------------------------------------
(* Requests, responses and the dispatcher's progress *)

\* a JavaScript value of a payload: t is its type, v its text
Str(s) == [t |-> "string", v |-> s]
Num(s) == [t |-> "number", v |-> s]
Bool(s) == [t |-> "boolean", v |-> s]
NaN == [t |-> "number", v |-> "NaN"]

EmptyObject == [k \in {} |-> Str("")]

NoRequest == [method |-> Undefined, path |-> Undefined, query |-> EmptyObject, body |-> EmptyObject]

\* a payload: null, or an object
NullPayload == [isNull |-> TRUE, obj |-> EmptyObject]
ObjectPayload(obj) == [isNull |-> FALSE, obj |-> obj]

\* the JSON body of a response: the fields it has and their values
EmptyDoc == [title |-> Undefined, paths |-> [p \in {} |-> [m \in {} |-> Undefined]]]
Body(fields, message, errors, value, doc) ==
  [fields |-> fields, message |-> message, errors |-> errors, value |-> value, doc |-> doc]
NoBody == Body({}, Undefined, <<>>, Undefined, EmptyDoc)

Response(status, body) == [status |-> status, body |-> body, writes |-> 1]
NoResponse == [status |-> 0, body |-> NoBody, writes |-> 0]

\* a failure value e a handler throws or rejects with:
\*   kind: what `typeof e` and the access e.message see
\*   str: e itself when it is a string;  msgType, msg: typeof e.message, e.message
\*   code: another field of an error object
StringFailure(str) ==
  [kind |-> "string", str |-> str, msgType |-> Undefined, msg |-> Undefined, code |-> Undefined]
ObjectFailure(msgType, msg) ==
  [kind |-> "object", str |-> Undefined, msgType |-> msgType, msg |-> msg, code |-> "E_INTERNAL"]
NullishFailure(kind) ==
  [kind |-> kind, str |-> Undefined, msgType |-> Undefined, msg |-> Undefined, code |-> Undefined]
NoFailure == NullishFailure("none")

\* the dispatcher has not run
Idle ==
  [state |-> "idle", layer |-> 0, error |-> Undefined,
   extracted |-> FALSE, payload |-> NullPayload,
   validated |-> FALSE, issues |-> <<>>,
   invoked |-> FALSE, handler |-> Undefined,
   settled |-> "no", failure |-> NoFailure]

----------------------------------------------------------------------------
(* Server constructor and Router constructor *)

DefaultBaseUrl == "/v1"

ServerCtor(baseUrl) ==
  [name |-> "myServer",
   baseUrl |-> IF baseUrl = Undefined THEN DefaultBaseUrl ELSE baseUrl]

EmptyPaths == [p \in {} |-> [m \in {} |-> Undefined]]

\* OpenApiBuilder.create(): an empty document
NewOpenApiBuilder == [title |-> "app", paths |-> EmptyPaths]

Init ==
  /\ \E b \in BaseUrlArgs : serverConfig = ServerCtor(b)
  /\ configs = <<>>
  /\ objs = <<>>
  /\ routes = <<>>
  /\ openApiBuilder = NewOpenApiBuilder
  /\ started = FALSE
  /\ app = <<>>
  /\ req = NoRequest
  /\ res = NoResponse
  /\ run = Idle
  /\ calls = 0

\* one more call of the configuration phase, which the model bounds
Called == calls < MaxCalls /\ calls' = calls + 1

----------------------------------------------------------------------------
(* Router: the registry *)

\* Router._addRoute: a new Route value in a new slot; the updater it is given
\* captures the slot's index
_addRoute(config) ==
  /\ Len(routes) < MaxRoutes
  /\ Len(objs) < MaxObjs
  /\ configs' = Append(configs, config)
  /\ objs' = Append(objs, [reg |-> Len(routes) + 1, handler |-> Undefined])
  /\ routes' = Append(routes, Len(objs) + 1)

\* faulty variant: a query's output defaults to the null-sentinel, as a mutation's does
QueryConfigNullOutput(opId) ==
  [opId |-> opId,
   opType |-> "query",
   method |-> "get",
   url |-> serverConfig.baseUrl \o "/" \o opId,
   jsonSchema |-> [input |-> JsonNullType, output |-> JsonNullType],
   zodSchemas |-> [input |-> ZodNull, output |-> ZodNull]]

\* the RouteConfig of Router.query
QueryConfig(opId) ==
  [opId |-> opId,
   opType |-> "query",
   method |-> "get",
   url |-> serverConfig.baseUrl \o "/" \o opId,
   jsonSchema |-> [input |-> JsonNullType, output |-> JsonEmpty],
   zodSchemas |-> [input |-> ZodNull, output |-> ZodAny]]

\* faulty variant: the url is built from a fixed /v1, as the Route constructor
\* once did, not from the router's baseUrl
MutationConfigFixedUrl(opId) ==
  [opId |-> opId,
   opType |-> "mutation",
   method |-> "post",
   url |-> "/v1/" \o opId,
   jsonSchema |-> [input |-> JsonEmpty, output |-> JsonNullType],
   zodSchemas |-> [input |-> ZodAny, output |-> ZodNull]]

\* the RouteConfig of Router.mutation
MutationConfig(opId) ==
  [opId |-> opId,
   opType |-> "mutation",
   method |-> "post",
   url |-> serverConfig.baseUrl \o "/" \o opId,
   jsonSchema |-> [input |-> JsonEmpty, output |-> JsonNullType],
   zodSchemas |-> [input |-> ZodAny, output |-> ZodNull]]

RouterQuery(opId) ==
  /\ ~started
  /\ Called
  /\ _addRoute(QueryConfig(opId))
  /\ UNCHANGED <<serverConfig, openApiBuilder, started, app, req, res, run>>

RouterMutation(opId) ==
  /\ ~started
  /\ Called
  /\ _addRoute(MutationConfig(opId))
  /\ UNCHANGED <<serverConfig, openApiBuilder, started, app, req, res, run>>

----------------------------------------------------------------------------
(* Route: the builder.  o is a reference to a Route value the program holds *)

RouteMethod(o, method) ==
  /\ ~started
  /\ Called
  /\ o \in DOMAIN objs
  /\ configs' = [configs EXCEPT ![objs[o].reg].method = method]
  /\ UNCHANGED <<serverConfig, objs, routes, openApiBuilder, started, app, req, res, run>>

RouteUrl(o, url) ==
  /\ ~started
  /\ Called
  /\ o \in DOMAIN objs
  /\ configs' = [configs EXCEPT ![objs[o].reg].url = url]
  /\ UNCHANGED <<serverConfig, objs, routes, openApiBuilder, started, app, req, res, run>>

\* faulty variant: the new value is added to the registry, not put in its slot
NewRouteValueAppended(o) ==
  /\ objs' = Append(objs, [reg |-> objs[o].reg, handler |-> Undefined])
  /\ routes' = Append(routes, Len(objs) + 1)

\* new Route(this.config, this.updater); this.updater(r): the new value shares
\* the config, has no handler, and replaces the registration's slot
NewRouteValue(o) ==
  /\ objs' = Append(objs, [reg |-> objs[o].reg, handler |-> Undefined])
  /\ routes' = [routes EXCEPT ![objs[o].reg] = Len(objs) + 1]

RouteInput(o, schema) ==
  /\ ~started
  /\ Called
  /\ o \in DOMAIN objs
  /\ Len(objs) < MaxObjs
  /\ configs' = [configs EXCEPT
                   ![objs[o].reg].zodSchemas.input = schema,
                   ![objs[o].reg].jsonSchema.input = DeleteDollarSchema(zodToJsonSchema(schema))]
  /\ NewRouteValue(o)
  /\ UNCHANGED <<serverConfig, openApiBuilder, started, app, req, res, run>>

RouteOutput(o, schema) ==
  /\ ~started
  /\ Called
  /\ o \in DOMAIN objs
  /\ Len(objs) < MaxObjs
  /\ configs' = [configs EXCEPT
                   ![objs[o].reg].zodSchemas.output = schema,
                   ![objs[o].reg].jsonSchema.output = DeleteDollarSchema(zodToJsonSchema(schema))]
  /\ NewRouteValue(o)
  /\ UNCHANGED <<serverConfig, openApiBuilder, started, app, req, res, run>>

RouteFn(o, handlerFn) ==
  /\ ~started
  /\ Called
  /\ o \in DOMAIN objs
  /\ objs' = [objs EXCEPT ![o].handler = handlerFn]
  /\ UNCHANGED <<serverConfig, configs, routes, openApiBuilder, started, app, req, res, run>>

----------------------------------------------------------------------------
(* OpenAPI generation *)

getErrorResponseSchema ==
  [description |-> "Standard error response object",
   content |-> <<JsonSchema("object", FALSE, TRUE,
                            [k \in {"message", "errors"} |->
                               IF k = "message" THEN "string" ELSE "array"],
                            FALSE)>>]

\* content is the sequence of the application/json schemas: empty or one
SuccessResponseObject(config) ==
  [description |-> "Success response object for " \o config.opId,
   content |-> IF isZodTypeNull(config.zodSchemas.output)
               THEN <<>>
               ELSE <<config.jsonSchema.output>>]

\* faulty variant: the success status does not depend on the output schema
SuccessResponseStatusCodeAlways200(config) == "200"

SuccessResponseStatusCode(config) ==
  IF isZodTypeNull(config.zodSchemas.output) THEN "204" ELSE "200"

RequestBodyObject(config) ==
  [description |-> "Request object for " \o config.opId,
   content |-> IF isZodTypeNull(config.zodSchemas.input)
               THEN <<>>
               ELSE <<config.jsonSchema.input>>,
   required |-> ~isZodTypeNull(config.zodSchemas.input)]

\* Route._getOpenAPIOperation of the Route value whose config is `config`
_getOpenAPIOperation(config) ==
  [path |-> config.url,
   method |-> config.method,
   operation |->
     [operationId |-> config.opId,
      requestBody |-> RequestBodyObject(config),
      responses |->
        [code \in {SuccessResponseStatusCode(config), "400", "500"} |->
           IF code \in {"400", "500"}
           THEN getErrorResponseSchema
           ELSE SuccessResponseObject(config)],
      xRequestOpType |-> config.opType]]

\* OpenApiBuilder.addPath(path, { [method]: operation }) of openapi3-ts:
\* paths[path] = { ...paths[path], ...pathItem }
addPath(paths, path, method, operation) ==
  [p \in DOMAIN paths \cup {path} |->
     IF p = path
     THEN [m \in (IF path \in DOMAIN paths THEN DOMAIN paths[path] ELSE {}) \cup {method} |->
             IF m = method THEN operation ELSE paths[path][m]]
     ELSE paths[p]]

RECURSIVE AddPaths(_, _)
\* routes.forEach(route => addPath(...)) over the registry from slot i on
AddPaths(paths, i) ==
  IF i > Len(routes)
  THEN paths
  ELSE LET op == _getOpenAPIOperation(configs[objs[routes[i]].reg])
       IN  AddPaths(addPath(paths, op.path, op.method, op.operation), i + 1)

\* Router._generateOpenApi: adds to the builder the router was constructed with
_generateOpenApi ==
  /\ Called
  /\ openApiBuilder' = [title |-> serverConfig.name,
                        paths |-> AddPaths(openApiBuilder.paths, 1)]
  /\ UNCHANGED <<serverConfig, configs, objs, routes, started, app, req, res, run>>

----------------------------------------------------------------------------
(* helpers.ts *)

Return(value) == [threw |-> Undefined, value |-> value]
Throw(error) == [threw |-> error, value |-> EmptyObject]

\* Number(param) on the query strings of the model
JsNumber(param) ==
  CASE param.v = "42" -> Num("42")
    [] param.v = "" -> Num("0")
    [] OTHER -> NaN

\* JSON.parse(param) on the query strings of the model: JsonParses tells
\* whether it returns; JsonParse is its value when it does
JsonParses(param) == param.v \in {"42", "true"}
JsonParse(param) ==
  CASE param.v = "42" -> Num("42")
    [] param.v = "true" -> Bool("true")
    [] OTHER -> Str("SyntaxError")  \* never a value: JSON.parse throws

\* properties[key] is truthy: a declared property, or a member inherited from
\* Object.prototype
PropertyTruthy(properties, key) == key \in DOMAIN properties \/ key \in ObjectPrototypeKeys

\* properties[key].type
PropertyType(properties, key) ==
  IF key \in DOMAIN properties THEN properties[key] ELSE Undefined

CoerceParam(type, param) ==
  CASE type = "string" -> param
    [] type = "boolean" -> Bool(IF param = Str("true") THEN "true" ELSE "false")
    [] type \in {"number", "integer"} -> JsNumber(param)
    [] OTHER -> JsonParse(param)

getPayloadFromParams(query, inputSchema) ==
  IF inputSchema.type = Undefined \/ inputSchema.additionalProperties
  THEN Return(query)
  ELSE IF ~inputSchema.hasProperties
  THEN \* properties is undefined: properties[key] throws at the first key
       IF DOMAIN query = {} THEN Return(EmptyObject) ELSE Throw("TypeError")
  ELSE LET properties == inputSchema.properties
           kept == {key \in DOMAIN query : PropertyTruthy(properties, key)}
           parsed == {key \in kept : PropertyType(properties, key) \notin
                                       {"string", "boolean", "number", "integer"}}
       IN  IF \E key \in parsed : ~JsonParses(query[key])
           THEN Throw("SyntaxError")
           ELSE Return([key \in kept |->
                          CoerceParam(PropertyType(properties, key), query[key])])

\* the truthiness of e.message
MessageTruthy(e) ==
  CASE e.msgType = "string" -> e.msg # ""
    [] e.msgType = "number" -> e.msg # "0"
    [] OTHER -> FALSE

FallbackMessage == "Internal server error occured"

processException(e) ==
  IF e.kind = "string" THEN [threw |-> Undefined, value |-> e.str]
  ELSE IF e.kind \in {"null", "undefined"}
  THEN \* e.message of null or undefined
       [threw |-> "TypeError", value |-> Undefined]
  ELSE IF MessageTruthy(e) /\ e.msgType = "string"
  THEN [threw |-> Undefined, value |-> e.msg]
  ELSE [threw |-> Undefined, value |-> FallbackMessage]

----------------------------------------------------------------------------
(* zod validation: schema.safeParse(payload) *)

KeyOrder == <<"count", "flag", "greeting", "name", "tags">>

MemberAccepts(member, value) ==
  CASE member = "ZodString" -> value.t = "string"
    [] member = "ZodBoolean" -> value.t = "boolean"
    [] member \in {"ZodNumber", "ZodNumberInt"} -> value.t = "number" /\ value # NaN
    [] OTHER -> value.t = "array"

Issue(code, path) == [code |-> code, path |-> path]

\* the keys of the shape the object fails on, in the shape's order
ObjectIssues(shape, obj) ==
  LET bad(key) == key \in DOMAIN shape
                  /\ (key \notin DOMAIN obj \/ ~MemberAccepts(shape[key], obj[key]))
      RECURSIVE Collect(_)
      Collect(i) ==
        IF i > Len(KeyOrder) THEN <<>>
        ELSE (IF bad(KeyOrder[i]) THEN <<Issue("invalid_type", KeyOrder[i])>> ELSE <<>>)
             \o Collect(i + 1)
  IN  Collect(1)

safeParse(schema, payload) ==
  LET issues ==
        CASE schema.typeName = "ZodAny" -> <<>>
          [] schema.typeName = "ZodNull" ->
               IF payload.isNull THEN <<>> ELSE <<Issue("invalid_type", "")>>
          [] schema.typeName = "ZodString" -> <<Issue("invalid_type", "")>>
          [] OTHER ->
               IF payload.isNull THEN <<Issue("invalid_type", "")>>
               ELSE ObjectIssues(schema.shape, payload.obj)
  IN  [success |-> issues = <<>>, issues |-> issues]

----------------------------------------------------------------------------
(* Server.start and Router._initialiseRoutes: the express application *)

Layer(verb, path, kind, obj, isBodyPresent, isRequestPayloadPresent, doc) ==
  [verb |-> verb, path |-> path, kind |-> kind, obj |-> obj,
   isBodyPresent |-> isBodyPresent,
   isRequestPayloadPresent |-> isRequestPayloadPresent, doc |-> doc]

FixedLayer(verb, path, kind, doc) == Layer(verb, path, kind, 0, FALSE, FALSE, doc)

\* the switch of Route.addRoute: the express method the handler is registered with
RegisteredVerb(method) ==
  CASE method = "get" -> "get"
    [] method = "delete" -> "delete"
    [] method = "put" -> "put"
    [] OTHER -> "post"

\* Route.addRoute of Route value o: what the closure captures at installation
addRoute(o) ==
  LET config == configs[objs[o].reg]
  IN  Layer(RegisteredVerb(config.method), config.url, "route", o,
            config.method \in {"post", "put"},
            ~isZodTypeNull(config.zodSchemas.input),
            EmptyDoc)

\* faulty variant: the catch-all is registered before the operations
_initialiseRoutesCatchAllFirst ==
  <<FixedLayer("get", serverConfig.baseUrl \o "/openapi.json", "openapi.json", openApiBuilder),
    FixedLayer("get", serverConfig.baseUrl \o "/openapi.yaml", "openapi.yaml", openApiBuilder),
    FixedLayer("all", "*", "catchall", EmptyDoc)>>
  \o [i \in 1..Len(routes) |-> addRoute(routes[i])]

\* the layers Router._initialiseRoutes adds
_initialiseRoutes ==
  <<FixedLayer("get", serverConfig.baseUrl \o "/openapi.json", "openapi.json", openApiBuilder),
    FixedLayer("get", serverConfig.baseUrl \o "/openapi.yaml", "openapi.yaml", openApiBuilder)>>
  \o [i \in 1..Len(routes) |-> addRoute(routes[i])]
  \o <<FixedLayer("all", "*", "catchall", EmptyDoc)>>

ServerStart ==
  /\ ~started
  /\ started' = TRUE
  /\ app' = <<FixedLayer("get", "/info", "info", EmptyDoc)>> \o _initialiseRoutes
  /\ UNCHANGED <<serverConfig, configs, objs, routes, openApiBuilder, req, res, run, calls>>

----------------------------------------------------------------------------
(* A request: express's first-match routing, then the matched handler *)

\* Paths are matched by equality; the urls of the model hold no pattern.
\* Requests are served one after the other: a request writes nothing but its
\* own response, so interleaving two of them adds no behaviour.
Matches(layer, method, path) ==
  /\ layer.verb \in {"all", method}
  /\ layer.path \in {"*", path}

FirstMatch(method, path) ==
  CHOOSE i \in DOMAIN app :
    /\ Matches(app[i], method, path)
    /\ \A j \in 1..(i - 1) : ~Matches(app[j], method, path)

\* the payload of the request handler of Route.addRoute
ExtractPayload(layer, query, body) ==
  IF layer.isRequestPayloadPresent
  THEN IF layer.isBodyPresent
       THEN [threw |-> Undefined, payload |-> ObjectPayload(body)]
       ELSE LET got == getPayloadFromParams(query, configs[objs[layer.obj].reg].jsonSchema.input)
            IN  [threw |-> got.threw, payload |-> ObjectPayload(got.value)]
  ELSE [threw |-> Undefined, payload |-> NullPayload]

\* faulty variant: a missing handler is not detected
HandlerMissingNever(route) == FALSE

\* if (!this.handler)
HandlerMissing(route) == route.handler = Undefined

\* faulty variant: the result of the validation is ignored
ValidationFailedNever(parseResult) == FALSE

\* if (!parseResult?.success)
ValidationFailed(parseResult) == ~parseResult.success

\* the request handler of Route.addRoute up to the call of the user's handler
RouteHandler(i, query, body) ==
  LET layer == app[i]
      route == objs[layer.obj]
      config == configs[route.reg]
      extraction == ExtractPayload(layer, query, body)
      parseResult == safeParse(config.zodSchemas.input, extraction.payload)
  IN  IF HandlerMissing(route)
      THEN /\ run' = [Idle EXCEPT !.state = "rejected", !.layer = i,
                                  !.error = "Validator and query are not defined"]
           /\ res' = NoResponse
      ELSE IF extraction.threw # Undefined
      THEN /\ run' = [Idle EXCEPT !.state = "rejected", !.layer = i,
                                  !.error = extraction.threw]
           /\ res' = NoResponse
      ELSE IF ValidationFailed(parseResult)
      THEN /\ run' = [Idle EXCEPT !.state = "done", !.layer = i,
                                  !.extracted = TRUE, !.payload = extraction.payload,
                                  !.validated = TRUE, !.issues = parseResult.issues]
           /\ res' = Response(400, Body({"message", "errors"},
                                        "Invalid request payload sent",
                                        parseResult.issues, Undefined, EmptyDoc))
      ELSE /\ run' = [Idle EXCEPT !.state = "awaiting", !.layer = i,
                                  !.extracted = TRUE, !.payload = extraction.payload,
                                  !.validated = TRUE,
                                  !.invoked = TRUE, !.handler = route.handler]
           /\ res' = NoResponse

Request(method, path, query, body) ==
  /\ started
  /\ run.state = "idle"
  /\ req' = [method |-> method, path |-> path, query |-> query, body |-> body]
  /\ LET i == FirstMatch(method, path)
     IN  CASE app[i].kind = "info" ->
                /\ res' = Response(200, Body({"name"}, Undefined, <<>>, serverConfig.name, EmptyDoc))
                /\ run' = [Idle EXCEPT !.state = "done", !.layer = i]
           [] app[i].kind \in {"openapi.json", "openapi.yaml"} ->
                /\ res' = Response(200, Body({"doc"}, Undefined, <<>>, Undefined, app[i].doc))
                /\ run' = [Idle EXCEPT !.state = "done", !.layer = i]
           [] app[i].kind = "catchall" ->
                /\ res' = Response(400, Body({"message"}, "No route found", <<>>, Undefined, EmptyDoc))
                /\ run' = [Idle EXCEPT !.state = "done", !.layer = i]
           [] OTHER -> RouteHandler(i, query, body)
  /\ UNCHANGED <<serverConfig, configs, objs, routes, openApiBuilder, started, app, calls>>

\* the user's handler returns: res.json(output)
HandlerResolves(output) ==
  /\ run.state = "awaiting"
  /\ res' = Response(200, Body({"value"}, Undefined, <<>>, output, EmptyDoc))
  /\ run' = [run EXCEPT !.state = "done", !.settled = "resolved"]
  /\ UNCHANGED <<serverConfig, configs, objs, routes, openApiBuilder, started, app, req, calls>>

\* the user's handler throws or rejects with e: the catch block
HandlerRejects(e) ==
  /\ run.state = "awaiting"
  /\ LET message == processException(e)
     IN  IF message.threw # Undefined
         THEN /\ res' = NoResponse
              /\ run' = [run EXCEPT !.state = "rejected", !.error = message.threw,
                                     !.settled = "rejected", !.failure = e]
         ELSE /\ res' = Response(500, Body({"message"}, message.value, <<>>, Undefined, EmptyDoc))
              /\ run' = [run EXCEPT !.state = "done", !.settled = "rejected", !.failure = e]
  /\ UNCHANGED <<serverConfig, configs, objs, routes, openApiBuilder, started, app, req, calls>>

\* the exchange is over (the response was sent, or the request was abandoned
\* without one): the server takes the next request
RequestEnds ==
  /\ run.state \in {"done", "rejected"}
  /\ req' = NoRequest
  /\ res' = NoResponse
  /\ run' = Idle
  /\ UNCHANGED <<serverConfig, configs, objs, routes, openApiBuilder, started, app, calls>>

----------------------------------------------------------------------------
(* Inputs of the requests *)

ReqMethods == {"get", "post", "put", "delete"}

QueryKeys == {"name", "flag", "count", "tags", "extra", "constructor"}
ParamStrings == {"true", "yes", "42"}
Queries ==
  UNION {[keys -> {Str(p) : p \in ParamStrings}] :
           keys \in {K \in SUBSET QueryKeys : Cardinality(K) <= MaxQueryKeys}}

Bodies ==
  {EmptyObject,
   [k \in {"name"} |-> Str("bob")],
   [k \in {"name"} |-> Num("42")]}

Outputs == {"output"}

FailureValues ==
  {StringFailure("boom"), StringFailure(""),
   ObjectFailure("string", "x"), ObjectFailure("string", ""),
   ObjectFailure("number", "42"), ObjectFailure(Undefined, Undefined),
   NullishFailure("null"), NullishFailure("undefined")}

InputSchemas == {ZodNull, ZodString, NameSchema, FlagsSchema, OpenSchema}
OutputSchemas == {ZodNull, GreetingSchema}

----------------------------------------------------------------------------
(* The program up to the start of the server: registration and refinement  *)
(* of routes, generation of the OpenAPI document, Server.start             *)

Build ==
  \/ \E opId \in OpIds : RouterQuery(opId)
  \/ \E opId \in OpIds : RouterMutation(opId)
  \/ \E o \in DOMAIN objs, method \in {"delete", "GET"} : RouteMethod(o, method)
  \/ \E o \in DOMAIN objs, url \in UrlArgs : RouteUrl(o, url)
  \/ \E o \in DOMAIN objs, schema \in {ZodNull, NameSchema} : RouteInput(o, schema)
  \/ \E o \in DOMAIN objs, schema \in OutputSchemas : RouteOutput(o, schema)
  \/ \E o \in DOMAIN objs, handlerFn \in Handlers : RouteFn(o, handlerFn)

Next ==
  \/ Build
  \/ _generateOpenApi
  \/ ServerStart

Spec == Init /\ [][Next]_vars

----------------------------------------------------------------------------
(* The routing of requests over the layers Server.start installs           *)

RoutingPaths ==
  {"/info", serverConfig.baseUrl \o "/openapi.json", serverConfig.baseUrl \o "/operate",
   "/x", "/nonexistent"}

NextRouting ==
  \/ \E opId \in OpIds : RouterQuery(opId)
  \/ \E opId \in OpIds : RouterMutation(opId)
  \/ \E o \in DOMAIN objs, method \in {"delete", "GET"} : RouteMethod(o, method)
  \/ \E o \in DOMAIN objs : RouteUrl(o, "/x")
  \/ \E o \in DOMAIN objs : RouteFn(o, "h1")
  \/ ServerStart
  \/ \E method \in {"get", "post", "delete"}, path \in RoutingPaths :
       Request(method, path, EmptyObject, EmptyObject)
  \/ \E output \in Outputs : HandlerResolves(output)
  \/ RequestEnds

SpecRouting == Init /\ [][NextRouting]_vars

----------------------------------------------------------------------------
(* The dispatcher of one route, under every method, input schema, body and *)
(* handler outcome                                                         *)

DispatchQueries ==
  {EmptyObject,
   [k \in {"name"} |-> Str("yes")],
   [k \in {"flag", "count"} |-> Str("42")],
   [k \in {"tags"} |-> Str("yes")]}

NextDispatch ==
  \/ Len(routes) = 0 /\ RouterQuery("operate")
  \/ Len(routes) = 0 /\ RouterMutation("operate")
  \/ \E o \in DOMAIN objs, method \in MethodArgs : RouteMethod(o, method)
  \/ \E o \in DOMAIN objs, schema \in InputSchemas : RouteInput(o, schema)
  \/ \E o \in DOMAIN objs : RouteFn(o, "h1")
  \/ ServerStart
  \/ \E method \in ReqMethods, query \in DispatchQueries, body \in Bodies :
       Request(method, serverConfig.baseUrl \o "/operate", query, body)
  \/ \E output \in Outputs : HandlerResolves(output)
  \/ \E e \in FailureValues : HandlerRejects(e)
  \/ RequestEnds

SpecDispatch == Init /\ [][NextDispatch]_vars

----------------------------------------------------------------------------
(* The query parameters of a GET route, under every query map and schema   *)

NextCoerce ==
  \/ Len(routes) = 0 /\ RouterQuery("operate")
  \/ \E o \in DOMAIN objs, schema \in InputSchemas \cup {ZodAny} :
       Len(objs) = 1 /\ RouteInput(o, schema)
  \/ \E o \in DOMAIN objs : RouteFn(o, "h1")
  \/ ServerStart
  \/ \E query \in Queries :
       Request("get", serverConfig.baseUrl \o "/operate", query, EmptyObject)
  \/ \E output \in Outputs : HandlerResolves(output)
  \/ RequestEnds

SpecCoerce == Init /\ [][NextCoerce]_vars

----------------------------------------------------------------------------
(* Properties of the dispatcher *)

\* the request being served was routed to the dispatcher of an operation
DispatchedToRoute == run.state # "idle" /\ app[run.layer].kind = "route"
DispatchedRoute == objs[app[run.layer].obj]
DispatchedConfig == configs[DispatchedRoute.reg]

\* C1: when the route has a handler and the validation of the extracted
\* payload fails, the response is 400 with the message "Invalid request
\* payload sent" and the validator's issues, and the handler is not invoked;
\* the handler is invoked only on a payload that passed the validation.
C1_ValidationFailure ==
  (DispatchedToRoute /\ DispatchedRoute.handler # Undefined) =>
    LET verdict == safeParse(DispatchedConfig.zodSchemas.input, run.payload)
    IN  /\ (run.extracted /\ ~verdict.success) =>
              /\ res = Response(400, Body({"message", "errors"},
                                          "Invalid request payload sent",
                                          verdict.issues, Undefined, EmptyDoc))
              /\ ~run.invoked
        /\ run.invoked => (run.extracted /\ verdict.success)

\* the scenario of the specification: POST, input { name: string }, body {}
C1_Witness ==
  /\ DispatchedToRoute
  /\ DispatchedRoute.handler # Undefined
  /\ DispatchedConfig.zodSchemas.input = NameSchema
  /\ req.method = "post"
  /\ req.body = EmptyObject
  /\ res.status = 400
  /\ res.body.errors # <<>>
  /\ ~run.invoked

\* the message the claim derives from a failure value
ClaimedMessage(e) ==
  IF e.kind = "string" THEN e.str
  ELSE IF e.msgType = "string" THEN e.msg
  ELSE FallbackMessage

\* C2: whatever a handler throws or rejects with, the response is 500 with
\* the body { message } alone, the message being the failure value if it is
\* a string, else its message field if that is a string, else the fallback.
C2_HandlerFailure ==
  run.settled = "rejected" =>
    res = Response(500, Body({"message"}, ClaimedMessage(run.failure), <<>>, Undefined, EmptyDoc))

\* C3: with an input schema other than the null-sentinel the validated
\* payload is the body when the route's method is POST or PUT and the coerced
\* query parameters when it is GET or DELETE; with the null-sentinel it is null.
C3_PayloadSource ==
  (DispatchedToRoute /\ run.extracted) =>
    IF isZodTypeNull(DispatchedConfig.zodSchemas.input)
    THEN run.payload = NullPayload
    ELSE /\ DispatchedConfig.method \in {"post", "put", "POST", "PUT"} =>
              run.payload = ObjectPayload(req.body)
         /\ DispatchedConfig.method \in {"get", "delete", "GET", "DELETE"} =>
              run.payload = ObjectPayload(
                getPayloadFromParams(req.query, DispatchedConfig.jsonSchema.input).value)

\* the coercion the claim describes, of one parameter and of a query map
ClaimedCoercion(type, param) ==
  CASE type = "string" -> param
    [] type = "boolean" -> IF param.v = "true" THEN Bool("true") ELSE Bool("false")
    [] type \in {"number", "integer"} -> JsNumber(param)
    [] OTHER -> JsonParse(param)

ClaimedPayload(query, schema) ==
  IF schema.type = Undefined \/ schema.additionalProperties
  THEN query
  ELSE [key \in DOMAIN query \cap DOMAIN schema.properties |->
          ClaimedCoercion(schema.properties[key], query[key])]

\* every parameter the claim parses as a JSON literal is one
ClaimedPayloadDefined(query, schema) ==
  \/ schema.type = Undefined
  \/ schema.additionalProperties
  \/ \A key \in DOMAIN query \cap DOMAIN schema.properties :
       schema.properties[key] \in {"string", "boolean", "number", "integer"}
       \/ JsonParses(query[key])

\* C4: the query parameters of a request are coerced to the raw query map
\* when the schema has no type or allows additional properties, and else to
\* the declared keys of the query, each coerced by its declared type, the
\* undeclared keys dropped.
C4_Coercion ==
  ( /\ DispatchedToRoute
    /\ DispatchedRoute.handler # Undefined
    /\ app[run.layer].isRequestPayloadPresent
    /\ ~app[run.layer].isBodyPresent
    /\ ClaimedPayloadDefined(req.query, DispatchedConfig.jsonSchema.input) ) =>
      /\ run.extracted
      /\ run.payload = ObjectPayload(ClaimedPayload(req.query, DispatchedConfig.jsonSchema.input))

\* C5: a request to a route without a handler raises the configuration
\* error before any payload is extracted or validated; no handler runs and
\* no response is written.
C5_MissingHandler ==
  (DispatchedToRoute /\ DispatchedRoute.handler = Undefined) =>
    /\ run.state = "rejected"
    /\ run.error = "Validator and query are not defined"
    /\ ~run.extracted
    /\ ~run.validated
    /\ ~run.invoked
    /\ res = NoResponse

C5_Witness ==
  /\ DispatchedToRoute
  /\ DispatchedRoute.handler = Undefined
  /\ run.state = "rejected"
  /\ req.body # EmptyObject

----------------------------------------------------------------------------
(* Properties of the installation and of the OpenAPI document *)

\* the HTTP method a method string names, as express names it
HttpMethod(method) ==
  CASE method = "GET" -> "get"
    [] method = "PUT" -> "put"
    [] OTHER -> method

\* C6: every route is installed at the method and url of its configuration,
\* which are the method and path its OpenAPI operation advertises.
C6_InstalledAsConfigured ==
  started =>
    \A i \in DOMAIN app :
      app[i].kind = "route" =>
        LET op == _getOpenAPIOperation(configs[objs[app[i].obj].reg])
        IN  /\ app[i].path = op.path
            /\ app[i].verb = HttpMethod(op.method)

CatchAllResponse ==
  Response(400, Body({"message"}, "No route found", <<>>, Undefined, EmptyDoc))

\* C7: the layers are the two OpenAPI endpoints, the routes in registration
\* order, then the catch-all; a request is answered by the catch-all, with
\* 400 and "No route found", exactly when no other layer matches it.
C7_CatchAll ==
  started =>
    /\ Len(app) = Len(routes) + 4
    /\ app[2].kind = "openapi.json"
    /\ app[3].kind = "openapi.yaml"
    /\ \A i \in DOMAIN routes : app[3 + i].kind = "route" /\ app[3 + i].obj = routes[i]
    /\ app[Len(app)].kind = "catchall"
    /\ run.state # "idle" =>
         (res = CatchAllResponse <=>
            \A i \in DOMAIN app :
              app[i].kind # "catchall" => ~Matches(app[i], req.method, req.path))

C7_Witness ==
  /\ started
  /\ Len(routes) = 2
  /\ run.state = "done"
  /\ req.path = "/nonexistent"
  /\ res = CatchAllResponse

\* C8: the document served at openapi.json and openapi.yaml holds an
\* operation with the route's opId for every route registered before start().
C8_ServedSpec ==
  started =>
    \A i \in DOMAIN routes :
      \A l \in {2, 3} :
        \E path \in DOMAIN app[l].doc.paths :
          \E method \in DOMAIN app[l].doc.paths[path] :
            app[l].doc.paths[path][method].operationId = configs[objs[routes[i]].reg].opId

\* C9: the operation of a route has a request body that is not required and
\* empty exactly when the input is the null-sentinel and else required with
\* the input JSON-Schema; one success response, 204 without content when the
\* output is the null-sentinel and else 200 with the output JSON-Schema; the
\* 400 and 500 responses; and the route's kind as x-request-op-type.
C9_Operation ==
  \A i \in DOMAIN routes :
    LET config == configs[objs[routes[i]].reg]
        op == _getOpenAPIOperation(config).operation
        inputNull == config.zodSchemas.input.typeName = "ZodNull"
        outputNull == config.zodSchemas.output.typeName = "ZodNull"
    IN  /\ (~op.requestBody.required /\ op.requestBody.content = <<>>) <=> inputNull
        /\ ~inputNull =>
             /\ op.requestBody.required
             /\ op.requestBody.content = <<config.jsonSchema.input>>
        /\ IF outputNull
           THEN /\ DOMAIN op.responses = {"204", "400", "500"}
                /\ op.responses["204"].content = <<>>
           ELSE /\ DOMAIN op.responses = {"200", "400", "500"}
                /\ op.responses["200"].content = <<config.jsonSchema.output>>
        /\ op.responses["400"] = getErrorResponseSchema
        /\ op.responses["500"] = getErrorResponseSchema
        /\ op.xRequestOpType = config.opType
        /\ op.xRequestOpType \in {"query", "mutation"}

C9_Witness ==
  /\ Len(routes) = 2
  /\ isZodTypeNull(configs[1].zodSchemas.input)
  /\ ~isZodTypeNull(configs[1].zodSchemas.output)
  /\ configs[2].zodSchemas.input = NameSchema
  /\ isZodTypeNull(configs[2].zodSchemas.output)

\* input() and output() were never called on a route of registration i
Unrefined(i) == Cardinality({o \in DOMAIN objs : objs[o].reg = i}) = 1

\* C10: a query route on which neither input() nor output() was called has
\* an operation whose request body is not required and whose success status
\* is 204.
C10_QueryAdvertises204 ==
  \A i \in DOMAIN configs :
    (configs[i].opType = "query" /\ Unrefined(i)) =>
      LET op == _getOpenAPIOperation(configs[i]).operation
      IN  /\ ~op.requestBody.required
          /\ "204" \in DOMAIN op.responses

\* C10, amended: the request body of such a route is not required and its
\* success status is 200.
C10_QueryAdvertises200 ==
  \A i \in DOMAIN configs :
    (configs[i].opType = "query" /\ Unrefined(i)) =>
      LET op == _getOpenAPIOperation(configs[i]).operation
      IN  /\ ~op.requestBody.required
          /\ DOMAIN op.responses = {"200", "400", "500"}

C10_Witness ==
  \E i \in DOMAIN configs : configs[i].opType = "query" /\ Unrefined(i)

----------------------------------------------------------------------------
(* Properties of the registry and of the builder *)

\* C11: a step that registers a route gives it the method GET (query) or
\* POST (mutation) and the url baseUrl/opId, the baseUrl being /v1 or the one
\* the server was configured with; the method and the url of a registered
\* route change only in a step of method() or url() on one of its values, so
\* that the url is resolved whenever the route is installed or described.
C11_Defaults ==
  [][ /\ \A i \in DOMAIN configs' \ DOMAIN configs :
           /\ configs'[i].method = IF configs'[i].opType = "query" THEN "get" ELSE "post"
           /\ configs'[i].url = serverConfig.baseUrl \o "/" \o configs'[i].opId
           /\ serverConfig.baseUrl \in {"/v1"} \cup (BaseUrlArgs \ {Undefined})
      /\ \A i \in DOMAIN configs :
           /\ configs'[i].method # configs[i].method =>
                \E o \in DOMAIN objs, method \in MethodArgs :
                  objs[o].reg = i /\ RouteMethod(o, method)
           /\ configs'[i].url # configs[i].url =>
                \E o \in DOMAIN objs, url \in UrlArgs :
                  objs[o].reg = i /\ RouteUrl(o, url)
           /\ configs'[i].url # Undefined ]_vars

\* a query and a mutation with their defaults, under a configured baseUrl
C11_Witness ==
  /\ Len(configs) = 2
  /\ serverConfig.baseUrl = "/v2"
  /\ configs[1].opType = "query" /\ configs[1].method = "get"
  /\ configs[1].url = "/v2/" \o configs[1].opId
  /\ configs[2].opType = "mutation" /\ configs[2].method = "post"
  /\ configs[2].url = "/v2/" \o configs[2].opId
  /\ started

\* C12: no two routes of the registry have the same opId.
C12_UniqueOpIds ==
  \A i, j \in DOMAIN routes :
    i # j => configs[objs[routes[i]].reg].opId # configs[objs[routes[j]].reg].opId

\* the document a first generation on a fresh router holding the registry
\* yields
FreshDocument == [title |-> serverConfig.name, paths |-> AddPaths(EmptyPaths, 1)]

\* C13: every generation of the OpenAPI document yields the document of the
\* registry as it is at the call: that of a first generation on a fresh
\* router holding this registry.
C13_PureGeneration ==
  [][_generateOpenApi => openApiBuilder' = FreshDocument]_vars

\* the Route values of registration i
ValuesOf(i) == {o \in DOMAIN objs : objs[o].reg = i}

\* the Route value of registration i that was created last
LatestOf(i) == CHOOSE o \in ValuesOf(i) : \A other \in ValuesOf(i) : other <= o

\* C14: the registry has one slot per registration, in the order of the
\* registrations; slot i holds the Route value the latest input() or output()
\* of registration i returned (the first one if there was none); the opId and
\* the kind of a registration never change.
C14_Slots ==
  /\ [](/\ Len(routes) = Len(configs)
        /\ \A i \in DOMAIN routes :
             /\ routes[i] \in ValuesOf(i)
             /\ routes[i] = LatestOf(i))
  /\ [][\A i \in DOMAIN configs :
          /\ i \in DOMAIN configs'
          /\ configs'[i].opId = configs[i].opId
          /\ configs'[i].opType = configs[i].opType]_vars

\* two registrations, the first refined, the second not
C14_Witness ==
  /\ Len(routes) = 2
  /\ Cardinality(ValuesOf(1)) = 2
  /\ routes[1] = 3
  /\ routes[2] = 2

\* C15: a step fn(h) on a Route value of a registration leaves h as the
\* handler of the Route value in the registration's slot, and no other step
\* changes the handler of the Route value in the slot.
C15_HandlerInSlot ==
  [][\A i \in DOMAIN routes :
       /\ \A o \in DOMAIN objs, h \in Handlers :
            (objs[o].reg = i /\ RouteFn(o, h)) => objs'[routes'[i]].handler = h
       /\ (~ \E o \in DOMAIN objs, h \in Handlers : objs[o].reg = i /\ RouteFn(o, h)) =>
            (objs[routes[i]].handler # Undefined =>
               objs'[routes'[i]].handler = objs[routes[i]].handler)]_vars

\* C16: a request dispatched to a route that has a handler does not end
\* without exactly one response: 200 with the value the handler resolved
\* with, 400 after a validation failure, or 500 after a failure of the handler.
C16_OneResponse ==
  (DispatchedToRoute /\ DispatchedRoute.handler # Undefined /\ run.state # "awaiting") =>
    /\ run.state = "done"
    /\ res.writes = 1
    /\ \/ res.status = 200 /\ run.settled = "resolved" /\ res.body.fields = {"value"}
       \/ res.status = 400 /\ run.validated /\ ~run.invoked
       \/ res.status = 500 /\ run.settled = "rejected"

====
